---- MODULE Spec2Model ----
(***************************************************************************)
(* compute_cost of CostFunction.py and of LinearRegression.py: the squared *)
(* error cost of the linear model w*x + b over the samples x, y.           *)
(*                                                                         *)
(* Numbers: the samples and parameters are integers, and the quotient      *)
(* 1/(2*m) and the returned cost are exact rationals <<n, d>> in lowest    *)
(* terms (d > 0).  float64 rounding is not modelled.                       *)
(* Arrays: Python indexes from 0, a TLA+ sequence from 1; Index(a, i) is   *)
(* a[i] of the source.                                                     *)
(***************************************************************************)
EXTENDS Integers, Sequences, FiniteSets, TLC

\* ---- bounds of the model ------------------------------------------------
MaxLen == 2

XVals == {1, 2}
YVals == {2, 4, 5}
WVals == {0, 2}
BVals == {-1, 0}
Callers == {1, 2}

SeqsUpTo(S, n) == UNION {[1..k -> S] : k \in 0..n}

VARIABLES
    x_train, y_train,   \* the script-level arrays
    pc,                 \* per caller: "idle", "loop", "scale", "return", "done", "raised"
    fn,                 \* per caller: which compute_cost it runs, "CF" or "LR"
    w, b, x, y,         \* per call: the parameters; x and y are references
    m, i,               \* per call: local m, and i, the next value range(m) yields
    cost_sum,           \* per call: accumulator of CostFunction.compute_cost
    total_cost,         \* per call: local total_cost of CostFunction.compute_cost
    cost,               \* per call: accumulator of LinearRegression.compute_cost
    ret,                \* per call: the value returned to the caller
    err                 \* per call: the exception that left the call, or "none"

globals == <<x_train, y_train>>
vars == <<x_train, y_train, pc, fn, w, b, x, y, m, i, cost_sum, total_cost, cost, ret, err>>

\* ---- numbers ------------------------------------------------------------
Abs(n) == IF n < 0 THEN -n ELSE n

RECURSIVE GCD(_, _)
GCD(p, q) == IF q = 0 THEN p ELSE GCD(q, p % q)

\* the rational n/d, d # 0, in lowest terms with a positive denominator
Rat(n, d) ==
    LET g == GCD(Abs(n), Abs(d))
        s == IF d < 0 THEN -1 ELSE 1
    IN  <<(s * n) \div g, (s * d) \div g>>

Zero == <<0, 1>>

\* r * k for a rational r and an integer k
RatTimes(r, k) == Rat(r[1] * k, r[2])

\* ---- arrays --------------------------------------------------------------
\* a.shape[0]
shape0(a) == Len(a)

\* a[i] is defined for 0 <= i < len(a) (i is never negative here)
InBounds(a, k) == k >= 0 /\ k < Len(a)
Index(a, k) == a[k + 1]

\* the array a reference names
Deref(r) == IF r = "x_train" THEN x_train ELSE y_train

\* ---- CostFunction.py: compute_cost(w, b, x, y) ---------------------------
\* line 16 raises IndexError when x[i] or y[i] is out of range
CF_body_raises(xa, ya, k) == ~InBounds(xa, k) \/ ~InBounds(ya, k)

\* variants of line 16: the residual not squared; the intercept b left out
CF_body_unsquared(acc, wv, bv, xa, ya, k) ==
    acc + (wv * Index(xa, k) + bv - Index(ya, k))

\* line 16: cost_sum += (w * x[i] + b - y[i])**2
CF_body(acc, wv, bv, xa, ya, k) ==
    LET r == wv * Index(xa, k) + bv - Index(ya, k)
    IN  acc + r * r

\* line 18: total_cost = (1/(2*m)) * cost_sum
CF_scale_raises(mv) == 2 * mv = 0
CF_scale(mv, acc) == RatTimes(Rat(1, 2 * mv), acc)

\* ---- LinearRegression.py: compute_cost(x, y, w, b) -----------------------
LR_body_raises(xa, ya, k) == ~InBounds(xa, k) \/ ~InBounds(ya, k)

\* variants of line 14: the residual weighted by its position; the intercept
\* left out; the target added instead of subtracted
LR_body_weighted(acc, xa, ya, wv, bv, k) ==
    LET r == wv * Index(xa, k) + bv - Index(ya, k)
    IN  acc + (k + 1) * r * r

LR_body_no_b(acc, xa, ya, wv, bv, k) ==
    LET r == wv * Index(xa, k) - Index(ya, k)
    IN  acc + r * r

LR_body_plus_y(acc, xa, ya, wv, bv, k) ==
    LET r == wv * Index(xa, k) + bv + Index(ya, k)
    IN  acc + r * r

\* line 14: cost += (w*x[i]+b-y[i])**2
LR_body(acc, xa, ya, wv, bv, k) ==
    LET r == wv * Index(xa, k) + bv - Index(ya, k)
    IN  acc + r * r

\* variant of line 15: the mean without the factor one half
LR_scale_by_m(mv, acc) == RatTimes(Rat(1, mv), acc)

\* line 15: return 1/(2*m)*cost
LR_scale_raises(mv) == 2 * mv = 0
LR_scale(mv, acc) == RatTimes(Rat(1, 2 * mv), acc)

\* ---- the calls run to completion, alone ----------------------------------
Returned(v) == [err |-> "none", ret |-> v]
Raised(e) == [err |-> e, ret |-> Zero]

RECURSIVE CF_loop(_, _, _, _, _, _, _)
CF_loop(wv, bv, xa, ya, mv, k, acc) ==
    IF k < mv
    THEN IF CF_body_raises(xa, ya, k)
         THEN Raised("IndexError")
         ELSE CF_loop(wv, bv, xa, ya, mv, k + 1, CF_body(acc, wv, bv, xa, ya, k))
    ELSE IF CF_scale_raises(mv)
         THEN Raised("ZeroDivisionError")
         ELSE Returned(CF_scale(mv, acc))

CF_compute_cost(wv, bv, xa, ya) == CF_loop(wv, bv, xa, ya, shape0(xa), 0, 0)

RECURSIVE LR_loop(_, _, _, _, _, _, _)
LR_loop(xa, ya, wv, bv, mv, k, acc) ==
    IF k < mv
    THEN IF LR_body_raises(xa, ya, k)
         THEN Raised("IndexError")
         ELSE LR_loop(xa, ya, wv, bv, mv, k + 1, LR_body(acc, xa, ya, wv, bv, k))
    ELSE IF LR_scale_raises(mv)
         THEN Raised("ZeroDivisionError")
         ELSE Returned(LR_scale(mv, acc))

LR_compute_cost(xa, ya, wv, bv) == LR_loop(xa, ya, wv, bv, shape0(xa), 0, 0)

\* ---- the state machine ---------------------------------------------------
TypeOK ==
    /\ x_train \in SeqsUpTo(XVals, MaxLen)
    /\ y_train \in SeqsUpTo(YVals, MaxLen)
    /\ pc \in [Callers -> {"idle", "loop", "scale", "return", "done", "raised"}]
    /\ fn \in [Callers -> {"none", "CF", "LR"}]
    /\ w \in [Callers -> WVals \cup {0}]
    /\ b \in [Callers -> BVals \cup {0}]
    /\ x \in [Callers -> {"x_train", "y_train"}]
    /\ y \in [Callers -> {"x_train", "y_train"}]
    /\ m \in [Callers -> 0..MaxLen]
    /\ i \in [Callers -> 0..MaxLen]
    /\ cost_sum \in [Callers -> Int]
    /\ cost \in [Callers -> Int]
    /\ total_cost \in [Callers -> Int \X Int]
    /\ ret \in [Callers -> Int \X Int]
    /\ err \in [Callers -> {"none", "IndexError", "ZeroDivisionError"}]

Init ==
    /\ x_train \in SeqsUpTo(XVals, MaxLen)
    /\ y_train \in SeqsUpTo(YVals, MaxLen)
    /\ pc = [c \in Callers |-> "idle"]
    /\ fn = [c \in Callers |-> "none"]
    /\ w = [c \in Callers |-> 0]
    /\ b = [c \in Callers |-> 0]
    /\ x = [c \in Callers |-> "x_train"]
    /\ y = [c \in Callers |-> "y_train"]
    /\ m = [c \in Callers |-> 0]
    /\ i = [c \in Callers |-> 0]
    /\ cost_sum = [c \in Callers |-> 0]
    /\ total_cost = [c \in Callers |-> Zero]
    /\ cost = [c \in Callers |-> 0]
    /\ ret = [c \in Callers |-> Zero]
    /\ err = [c \in Callers |-> "none"]

\* variant of lines 10-13: the loop starts at the second sample
CF_Enter_skip_first(c, args) ==
    /\ pc[c] = "idle"
    /\ fn' = [fn EXCEPT ![c] = "CF"]
    /\ w' = [w EXCEPT ![c] = args[1]]
    /\ b' = [b EXCEPT ![c] = args[2]]
    /\ x' = [x EXCEPT ![c] = args[3]]
    /\ y' = [y EXCEPT ![c] = args[4]]
    /\ m' = [m EXCEPT ![c] = shape0(Deref(args[3]))]
    /\ i' = [i EXCEPT ![c] = IF shape0(Deref(args[3])) >= 1 THEN 1 ELSE 0]
    /\ cost_sum' = [cost_sum EXCEPT ![c] = 0]
    /\ pc' = [pc EXCEPT ![c] = "loop"]
    /\ UNCHANGED <<globals, total_cost, cost, ret, err>>

\* compute_cost(w, b, x, y) is entered with positional arguments args:
\* lines 10-13 bind the parameters, set m = x.shape[0] and cost_sum = 0
CF_Enter(c, args) ==
    /\ pc[c] = "idle"
    /\ fn' = [fn EXCEPT ![c] = "CF"]
    /\ w' = [w EXCEPT ![c] = args[1]]
    /\ b' = [b EXCEPT ![c] = args[2]]
    /\ x' = [x EXCEPT ![c] = args[3]]
    /\ y' = [y EXCEPT ![c] = args[4]]
    /\ m' = [m EXCEPT ![c] = shape0(Deref(args[3]))]
    /\ i' = [i EXCEPT ![c] = 0]
    /\ cost_sum' = [cost_sum EXCEPT ![c] = 0]
    /\ pc' = [pc EXCEPT ![c] = "loop"]
    /\ UNCHANGED <<globals, total_cost, cost, ret, err>>

\* variant of lines 15-16: the body also writes the sample back, x[i] = 0 * x[i] + 1
CF_Loop_inplace(c) ==
    /\ pc[c] = "loop"
    /\ fn[c] = "CF"
    /\ IF i[c] < m[c]
       THEN IF CF_body_raises(Deref(x[c]), Deref(y[c]), i[c])
            THEN /\ err' = [err EXCEPT ![c] = "IndexError"]
                 /\ pc' = [pc EXCEPT ![c] = "raised"]
                 /\ UNCHANGED <<cost_sum, i, x_train>>
            ELSE /\ cost_sum' = [cost_sum EXCEPT ![c] =
                        CF_body(cost_sum[c], w[c], b[c], Deref(x[c]), Deref(y[c]), i[c])]
                 /\ i' = [i EXCEPT ![c] = i[c] + 1]
                 /\ x_train' = [x_train EXCEPT ![i[c] + 1] = 1]
                 /\ UNCHANGED <<pc, err>>
       ELSE /\ pc' = [pc EXCEPT ![c] = "scale"]
            /\ UNCHANGED <<cost_sum, i, err, x_train>>
    /\ UNCHANGED <<y_train, fn, w, b, x, y, m, total_cost, cost, ret>>

\* lines 15-16: one turn of "for i in range(m)"
CF_Loop(c) ==
    /\ pc[c] = "loop"
    /\ fn[c] = "CF"
    /\ IF i[c] < m[c]
       THEN IF CF_body_raises(Deref(x[c]), Deref(y[c]), i[c])
            THEN /\ err' = [err EXCEPT ![c] = "IndexError"]
                 /\ pc' = [pc EXCEPT ![c] = "raised"]
                 /\ UNCHANGED <<cost_sum, i>>
            ELSE /\ cost_sum' = [cost_sum EXCEPT ![c] =
                        CF_body(cost_sum[c], w[c], b[c], Deref(x[c]), Deref(y[c]), i[c])]
                 /\ i' = [i EXCEPT ![c] = i[c] + 1]
                 /\ UNCHANGED <<pc, err>>
       ELSE /\ pc' = [pc EXCEPT ![c] = "scale"]
            /\ UNCHANGED <<cost_sum, i, err>>
    /\ UNCHANGED <<globals, fn, w, b, x, y, m, total_cost, cost, ret>>

\* variant of line 18: an empty sample set costs 0
CF_Scale_guarded(c) ==
    /\ pc[c] = "scale"
    /\ fn[c] = "CF"
    /\ total_cost' = [total_cost EXCEPT ![c] =
            IF m[c] = 0 THEN Zero ELSE CF_scale(m[c], cost_sum[c])]
    /\ pc' = [pc EXCEPT ![c] = "return"]
    /\ UNCHANGED <<globals, fn, w, b, x, y, m, i, cost_sum, cost, ret, err>>

\* line 18
CF_Scale(c) ==
    /\ pc[c] = "scale"
    /\ fn[c] = "CF"
    /\ IF CF_scale_raises(m[c])
       THEN /\ err' = [err EXCEPT ![c] = "ZeroDivisionError"]
            /\ pc' = [pc EXCEPT ![c] = "raised"]
            /\ UNCHANGED total_cost
       ELSE /\ total_cost' = [total_cost EXCEPT ![c] = CF_scale(m[c], cost_sum[c])]
            /\ pc' = [pc EXCEPT ![c] = "return"]
            /\ UNCHANGED err
    /\ UNCHANGED <<globals, fn, w, b, x, y, m, i, cost_sum, cost, ret>>

\* line 20
CF_Return(c) ==
    /\ pc[c] = "return"
    /\ fn[c] = "CF"
    /\ ret' = [ret EXCEPT ![c] = total_cost[c]]
    /\ pc' = [pc EXCEPT ![c] = "done"]
    /\ UNCHANGED <<globals, fn, w, b, x, y, m, i, cost_sum, total_cost, cost, err>>

\* compute_cost(x, y, w, b) is entered with positional arguments args:
\* lines 9-11 bind the parameters, set m = x.shape[0] and cost = 0
LR_Enter(c, args) ==
    /\ pc[c] = "idle"
    /\ fn' = [fn EXCEPT ![c] = "LR"]
    /\ x' = [x EXCEPT ![c] = args[1]]
    /\ y' = [y EXCEPT ![c] = args[2]]
    /\ w' = [w EXCEPT ![c] = args[3]]
    /\ b' = [b EXCEPT ![c] = args[4]]
    /\ m' = [m EXCEPT ![c] = shape0(Deref(args[1]))]
    /\ i' = [i EXCEPT ![c] = 0]
    /\ cost' = [cost EXCEPT ![c] = 0]
    /\ pc' = [pc EXCEPT ![c] = "loop"]
    /\ UNCHANGED <<globals, cost_sum, total_cost, ret, err>>

\* variant of lines 13-14: cost is a module-level accumulator, one for all calls
LR_Loop_shared(c) ==
    /\ pc[c] = "loop"
    /\ fn[c] = "LR"
    /\ IF i[c] < m[c]
       THEN IF LR_body_raises(Deref(x[c]), Deref(y[c]), i[c])
            THEN /\ err' = [err EXCEPT ![c] = "IndexError"]
                 /\ pc' = [pc EXCEPT ![c] = "raised"]
                 /\ UNCHANGED <<cost, i>>
            ELSE /\ cost' = [d \in Callers |->
                        LR_body(cost[c], Deref(x[c]), Deref(y[c]), w[c], b[c], i[c])]
                 /\ i' = [i EXCEPT ![c] = i[c] + 1]
                 /\ UNCHANGED <<pc, err>>
       ELSE /\ pc' = [pc EXCEPT ![c] = "return"]
            /\ UNCHANGED <<cost, i, err>>
    /\ UNCHANGED <<globals, fn, w, b, x, y, m, cost_sum, total_cost, ret>>

\* lines 13-14: one turn of "for i in range(m)"
LR_Loop(c) ==
    /\ pc[c] = "loop"
    /\ fn[c] = "LR"
    /\ IF i[c] < m[c]
       THEN IF LR_body_raises(Deref(x[c]), Deref(y[c]), i[c])
            THEN /\ err' = [err EXCEPT ![c] = "IndexError"]
                 /\ pc' = [pc EXCEPT ![c] = "raised"]
                 /\ UNCHANGED <<cost, i>>
            ELSE /\ cost' = [cost EXCEPT ![c] =
                        LR_body(cost[c], Deref(x[c]), Deref(y[c]), w[c], b[c], i[c])]
                 /\ i' = [i EXCEPT ![c] = i[c] + 1]
                 /\ UNCHANGED <<pc, err>>
       ELSE /\ pc' = [pc EXCEPT ![c] = "return"]
            /\ UNCHANGED <<cost, i, err>>
    /\ UNCHANGED <<globals, fn, w, b, x, y, m, cost_sum, total_cost, ret>>

\* line 15
LR_Return(c) ==
    /\ pc[c] = "return"
    /\ fn[c] = "LR"
    /\ IF LR_scale_raises(m[c])
       THEN /\ err' = [err EXCEPT ![c] = "ZeroDivisionError"]
            /\ pc' = [pc EXCEPT ![c] = "raised"]
            /\ UNCHANGED ret
       ELSE /\ ret' = [ret EXCEPT ![c] = LR_scale(m[c], cost[c])]
            /\ pc' = [pc EXCEPT ![c] = "done"]
            /\ UNCHANGED err
    /\ UNCHANGED <<globals, fn, w, b, x, y, m, i, cost_sum, total_cost, cost>>

\* a caller evaluates the cost of the script's samples at some (w, b)
CallCF(c) == \E wv \in WVals, bv \in BVals : CF_Enter(c, <<wv, bv, "x_train", "y_train">>)
CallLR(c) == \E wv \in WVals, bv \in BVals : LR_Enter(c, <<"x_train", "y_train", wv, bv>>)

Next ==
    \E c \in Callers :
        \/ CallCF(c)
        \/ CF_Loop(c)
        \/ CF_Scale(c)
        \/ CF_Return(c)
        \/ CallLR(c)
        \/ LR_Loop(c)
        \/ LR_Return(c)

Spec == Init /\ [][Next]_vars

\* ---- what a call was given, and where it stands -------------------------
X(c) == Deref(x[c])
Y(c) == Deref(y[c])
Finished(c) == pc[c] \in {"done", "raised"}
Valid(c) == Len(X(c)) = Len(Y(c)) /\ Len(X(c)) >= 1
Acc(c) == IF fn[c] = "CF" THEN cost_sum[c] ELSE cost[c]
Outcome(c) == [err |-> err[c], ret |-> ret[c]]

\* the squared residual of sample k, and its sum over a set of sample indices
SqResidual(wv, bv, xa, ya, k) == (wv * xa[k + 1] + bv - ya[k + 1]) * (wv * xa[k + 1] + bv - ya[k + 1])

RECURSIVE SumOver(_, _, _, _, _)
SumOver(wv, bv, xa, ya, S) ==
    IF S = {} THEN 0
    ELSE LET k == CHOOSE k \in S : TRUE
         IN  SqResidual(wv, bv, xa, ya, k) + SumOver(wv, bv, xa, ya, S \ {k})

\* the call of caller c, run alone to completion on the arrays xa, ya
RunAlone(c, xa, ya) ==
    IF fn[c] = "CF" THEN CF_compute_cost(w[c], b[c], xa, ya)
                    ELSE LR_compute_cost(xa, ya, w[c], b[c])

\* C1: on equal-length samples with m >= 1 the call returns, and what it
\* returns is (sum over i in [0, m) of (w*x[i] + b - y[i])^2) / (2*m), each
\* sample counted once.
C1_Cost ==
    \A c \in Callers :
        Valid(c) =>
            /\ pc[c] # "raised"
            /\ pc[c] = "done" =>
                /\ err[c] = "none"
                /\ ret[c][2] > 0
                /\ ret[c][1] * (2 * Len(X(c))) =
                       ret[c][2] * SumOver(w[c], b[c], X(c), Y(c), 0..(Len(X(c)) - 1))

C1_Witness ==
    \E c \in Callers :
        /\ pc[c] = "done" /\ Valid(c) /\ Len(X(c)) = 2
        /\ SqResidual(w[c], b[c], X(c), Y(c), 0) > 0
        /\ SqResidual(w[c], b[c], X(c), Y(c), 1) > SqResidual(w[c], b[c], X(c), Y(c), 0)

C3_Original ==
    \A c \in Callers :
        Len(X(c)) # Len(Y(c)) => pc[c] # "done"

\* C4: on valid inputs the accumulator is >= 0 after every loop iteration and
\* the returned cost is >= 0.
C4_NonNegative ==
    \A c \in Callers :
        (Valid(c) /\ pc[c] # "idle") =>
            /\ Acc(c) >= 0
            /\ pc[c] = "return" /\ fn[c] = "CF" => (total_cost[c][1] >= 0 /\ total_cost[c][2] > 0)
            /\ pc[c] = "done" => (ret[c][1] >= 0 /\ ret[c][2] > 0)

C4_Witness ==
    \E c \in Callers :
        /\ pc[c] = "done" /\ Valid(c) /\ Len(X(c)) = 2 /\ b[c] < 0
        /\ w[c] * X(c)[1] + b[c] - Y(c)[1] < 0
        /\ w[c] * X(c)[2] + b[c] - Y(c)[2] > 0
        /\ ret[c][1] > 0

\* the samples reordered
Perms(n) == {p \in [1..n -> 1..n] : \A j, k \in 1..n : j # k => p[j] # p[k]}
Permute(a, p) == [k \in 1..Len(a) |-> a[p[k]]]

\* C5: the cost of the samples reordered by any permutation (the same one on x
\* and on y) is the cost the call returned on the original order.
C5_OrderIndependent ==
    \A c \in Callers :
        (pc[c] = "done" /\ Valid(c)) =>
            \A p \in Perms(Len(X(c))) :
                RunAlone(c, Permute(X(c), p), Permute(Y(c), p)) = Returned(ret[c])

C5_Witness ==
    \E c \in Callers :
        /\ pc[c] = "done" /\ Valid(c) /\ Len(X(c)) = 2
        /\ X(c)[1] # X(c)[2]
        /\ SqResidual(w[c], b[c], X(c), Y(c), 0) # SqResidual(w[c], b[c], X(c), Y(c), 1)

\* every sample lies on the line y = w*x + b
PerfectFit(c) == \A k \in 1..Len(X(c)) : Y(c)[k] = w[c] * X(c)[k] + b[c]

\* C6: when every sample lies on the line (as samples (1,2),(2,4) do for
\* w = 2, b = 0) the call returns the cost 0.
C6_PerfectFit ==
    \A c \in Callers :
        (pc[c] = "done" /\ Valid(c) /\ PerfectFit(c)) => ret[c] = Zero

C6_Witness ==
    \E c \in Callers :
        /\ pc[c] = "done" /\ x_train = <<1, 2>> /\ y_train = <<2, 4>>
        /\ w[c] = 2 /\ b[c] = 0 /\ ret[c] = Zero

\* C7: for the one sample x = 1, y = 5 and w = 0, b = 0 the call returns
\* 25/2 = 12.5.
C7_SingleSample ==
    \A c \in Callers :
        (pc[c] = "done" /\ X(c) = <<1>> /\ Y(c) = <<5>> /\ w[c] = 0 /\ b[c] = 0) =>
            ret[c] = <<25, 2>>

C7_Witness ==
    \E c \in Callers :
        /\ pc[c] = "done" /\ x_train = <<1>> /\ y_train = <<5>>
        /\ w[c] = 0 /\ b[c] = 0 /\ ret[c][1] = 25

\* the frame of a call: its parameters, its locals and its outcome
Frame(c) == <<pc[c], fn[c], w[c], b[c], x[c], y[c], m[c], i[c],
              cost_sum[c], total_cost[c], cost[c], ret[c], err[c]>>

SameCall(c, d) == fn[c] = fn[d] /\ w[c] = w[d] /\ b[c] = b[d] /\ x[c] = x[d] /\ y[c] = y[d]

C8_Deterministic ==
    \A c, d \in Callers :
        (c # d /\ Finished(c) /\ Finished(d) /\ SameCall(c, d)) =>
            (pc[c] = pc[d] /\ Outcome(c) = Outcome(d))

C8_FrameStep ==
    /\ x_train' = x_train
    /\ y_train' = y_train
    /\ \A c \in Callers :
        /\ pc[c] # "idle" =>
              (w'[c] = w[c] /\ b'[c] = b[c] /\ x'[c] = x[c] /\ y'[c] = y[c] /\ fn'[c] = fn[c])
        /\ Frame(c)' # Frame(c) => \A d \in Callers \ {c} : Frame(d)' = Frame(d)

\* C8: two calls of the same function with the same arguments end in the same
\* outcome, and no step of a call writes x_train, y_train, the arrays x and y,
\* the parameters w and b, or anything of another call.
C8_Pure == []C8_Deterministic /\ [][C8_FrameStep]_vars

C8_Witness ==
    \E c, d \in Callers :
        /\ c # d /\ pc[c] = "done" /\ pc[d] = "done" /\ SameCall(c, d)
        /\ Len(x_train) = 2 /\ ret[c] # Zero

\* the accumulator of a call run alone, after its first k loop iterations
RECURSIVE AccAlone(_, _)
AccAlone(c, k) ==
    IF k = 0 THEN 0
    ELSE IF fn[c] = "CF"
         THEN CF_body(AccAlone(c, k - 1), w[c], b[c], X(c), Y(c), k - 1)
         ELSE LR_body(AccAlone(c, k - 1), X(c), Y(c), w[c], b[c], k - 1)

\* C9: however the loop iterations of concurrent calls interleave, each call
\* holds at every iteration the accumulator of its own run alone, and ends in
\* the outcome of its own run alone.
C9_Concurrent ==
    \A c \in Callers :
        /\ pc[c] \in {"loop", "scale", "return", "done"} => Acc(c) = AccAlone(c, i[c])
        /\ Finished(c) => Outcome(c) = RunAlone(c, X(c), Y(c))

C9_Witness ==
    \E c, d \in Callers :
        /\ c # d /\ pc[c] = "loop" /\ pc[d] = "loop"
        /\ i[c] = 1 /\ i[d] = 1 /\ m[c] = 2
        /\ Acc(c) # Acc(d) /\ Acc(c) > 0 /\ Acc(d) > 0

\* C10: on the same x, y, w, b the two compute_cost functions hold the same
\* accumulator after each iteration i and end in the same outcome, a returned
\* cost or a failure.
C10_Equivalent ==
    \A c, d \in Callers :
        (fn[c] = "CF" /\ fn[d] = "LR" /\ w[c] = w[d] /\ b[c] = b[d]
            /\ x[c] = x[d] /\ y[c] = y[d]) =>
            /\ (pc[c] # "raised" /\ pc[d] # "raised" /\ i[c] = i[d]) => cost_sum[c] = cost[d]
            /\ (Finished(c) /\ Finished(d)) => (pc[c] = pc[d] /\ Outcome(c) = Outcome(d))
            /\ Finished(c) => Outcome(c) = LR_compute_cost(X(d), Y(d), w[d], b[d])
            /\ Finished(d) => Outcome(d) = CF_compute_cost(w[c], b[c], X(c), Y(c))

C10_Witness ==
    \E c, d \in Callers :
        /\ fn[c] = "CF" /\ fn[d] = "LR" /\ w[c] = w[d] /\ b[c] = b[d]
        /\ pc[c] = "done" /\ pc[d] = "done"
        /\ Len(x_train) = 2 /\ ret[c] # Zero /\ ret[c] = ret[d]

====
